---- MODULE Spec2Model ----
(***************************************************************************)
(* Model of the embedding-indexed document store of the two servers        *)
(*   src/python-server/server.py          (VectorDBManager, persisted)     *)
(*   src/temp/embedded_langflow_server.py (SimpleVectorDB, in memory)      *)
(* and of the chat flow and response link enhancer of the embedded server. *)
(***************************************************************************)
EXTENDS Integers, Sequences, FiniteSets, TLC

VARIABLES
    server,         \* which of the two programs runs: "python-server" | "embedded"
    pc,             \* position of the process / of the running add_document
    vector_db,      \* the global vector_db: "None" | "VectorDBManager" | "SimpleVectorDB"
    index,          \* self.index: None or an IndexFlatL2
    metadata,       \* self.metadata: dict position -> record
    doc_count,      \* SimpleVectorDB.doc_count
    index_file,     \* faiss.index on disk
    metadata_file,  \* metadata.pkl on disk
    clock,          \* datetime.now(), a logical clock
    cur,            \* the document (and position) of the running add_document
    task,           \* who called the running add_document: "none" | "add" | "batch"
    batch,          \* documents of the batch still to be processed
    batch_in,       \* the batch of the latest /documents/batch request
    batch_base,     \* index.ntotal when that batch started
    resp,           \* outcome of the latest request / call
    origin,         \* how the current store object came to be:
                    \* "none" | "empty" | "loaded" | "failed" (initialize raised)
    n_ok,           \* successful add_document calls on the current store object
    text,           \* enhance_response_with_links: the response text
    results,        \* enhance_response_with_links: the search results
    name_to_info,   \* enhance_response_with_links: names still to be processed
    enhanced_response, \* enhance_response_with_links: the text being rewritten
    out,            \* enhance_response_with_links: the returned text
    epc,            \* position of the enhancer run: "off" | "start" | "loop" | "raised" |
                    \* "done" | "recovered"
    cpc,            \* position of the /chat request: "off" | "idle" | "calling" |
                    \* "enhancing" | "generated" | "done"
    message,        \* chat: request.message
    search_results, \* chat: the results of vector_db.search
    context_text,   \* chat: the context handed to the generation backend
    reply,          \* generate_ollama_response: what the backend call produced
    calls,          \* generate_ollama_response: number of backend calls made
    response_text,  \* chat: the value generate_ollama_response returned
    chat_resp       \* chat: the answer sent to the caller

storeVars == <<server, pc, vector_db, index, metadata, doc_count, index_file,
               metadata_file, clock, cur, task, batch, batch_in, batch_base,
               resp, origin, n_ok>>
enhVars == <<text, results, name_to_info, enhanced_response, out, epc>>
chatVars == <<cpc, message, search_results, context_text, reply, calls,
              response_text, chat_resp>>
vars == <<server, pc, vector_db, index, metadata, doc_count, index_file,
          metadata_file, clock, cur, task, batch, batch_in, batch_base,
          resp, origin, n_ok, text, results, name_to_info,
          enhanced_response, out, epc, cpc, message, search_results,
          context_text, reply, calls, response_text, chat_resp>>

(***************************************************************************)
(* Bounds of the model.                                                    *)
(***************************************************************************)
\* Embedding dimension of the model; the source uses 384.
Dim == 2
\* Number of add_document calls that reach the metadata table in one run.
MaxAdds == 3
\* Longest batch submitted to /documents/batch.
MaxBatch == 2

Min(a, b) == IF a < b THEN a ELSE b

(***************************************************************************)
(* The embedding provider (SentenceTransformer.encode): deterministic per  *)
(* content.  Content "c<n>" is embedded as the first Dim binary digits of  *)
(* n.  Content Rejected makes encode raise; content Wide yields an         *)
(* embedding of unexpected size.                                           *)
(***************************************************************************)
Rejected == "rejected"
Wide == "wide"

ContentCode(content) ==
    CASE content = "c0" -> 0
      [] content = "c1" -> 1
      [] content = "c2" -> 2
      [] OTHER -> 3

Bit(c, i) == (c \div (2 ^ (i - 1))) % 2

encode(content) ==
    IF content = Wide THEN [i \in 1..(Dim + 1) |-> 1]
    ELSE [i \in 1..Dim |-> Bit(ContentCode(content), i)]

encode_raises(content) == content = Rejected

\* The documents a client may send (DocumentRequest); two of them share a doc_id.
Docs ==
    { [doc_id |-> "d1", content |-> "c1", metadata |-> "m1"],
      [doc_id |-> "d1", content |-> "c2", metadata |-> "m2"],
      [doc_id |-> "bad", content |-> Rejected, metadata |-> "m3"],
      [doc_id |-> "wide", content |-> Wide, metadata |-> "m4"] }

Queries == {"c0", "c2"}
\* top_k of a search request: none, fewer than, as many as and more than the
\* vectors a store of the model holds.
TopKs == {0, 1, 2, 3}

NoDoc == [doc_id |-> "", content |-> "", metadata |-> ""]

(***************************************************************************)
(* faiss.IndexFlatL2                                                       *)
(***************************************************************************)
None == [none |-> TRUE]

IndexFlatL2(d) == [d |-> d, vecs |-> <<>>]

ntotal(ix) == Len(ix.vecs)

\* index.add(x): faiss asserts x.shape[1] == self.d.
index_add_raises(ix, v) == Len(v) # ix.d

index_add(ix, v) == [ix EXCEPT !.vecs = Append(ix.vecs, v)]

RECURSIVE SumSq(_, _, _)
SumSq(a, b, i) ==
    IF i = 0 THEN 0 ELSE (a[i] - b[i]) * (a[i] - b[i]) + SumSq(a, b, i - 1)

\* Squared Euclidean distance, the metric of IndexFlatL2.
L2sqr(a, b) == SumSq(a, b, Len(a))

\* Position p comes before position r in the result list for query vector q:
\* smaller distance first, equal distances by ascending position.
Before(ix, q, p, r) ==
    LET dp == L2sqr(q, ix.vecs[p + 1])
        dr == L2sqr(q, ix.vecs[r + 1])
    IN dp < dr \/ (dp = dr /\ p < r)

\* Rank (0-based) of position p among all positions for query q.
Rank(ix, q, p) ==
    Cardinality({r \in 0..(ntotal(ix) - 1) : Before(ix, q, r, p)})

\* index.search(q, k): faiss asserts k > 0 and returns the k nearest positions
\* with their distances.
index_search_raises(ix, q, k) == k <= 0 \/ Len(q) # ix.d

index_search(ix, q, k) ==
    [i \in 1..k |->
        LET p == CHOOSE p \in 0..(ntotal(ix) - 1) : Rank(ix, q, p) = i - 1
        IN [idx |-> p, distance |-> L2sqr(q, ix.vecs[p + 1])]]

(***************************************************************************)
(* Files: faiss.write_index / faiss.read_index and pickle.dump / load      *)
(***************************************************************************)
Absent == [st |-> "absent"]
Corrupt == [st |-> "corrupt"]

RECURSIVE Flatten(_)
Flatten(vs) == IF vs = <<>> THEN <<>> ELSE Head(vs) \o Flatten(Tail(vs))

\* faiss.write_index: header (d, ntotal) followed by the flat codes.
write_index(ix) ==
    [st |-> "ok", d |-> ix.d, ntotal |-> ntotal(ix), codes |-> Flatten(ix.vecs)]

\* faiss.read_index of a well-formed file.
read_index(f) ==
    [d |-> f.d,
     vecs |-> [i \in 1..f.ntotal |-> SubSeq(f.codes, (i - 1) * f.d + 1, i * f.d)]]

\* The keys of a dict in ascending order.
RECURSIVE SortedKeys(_)
SortedKeys(S) ==
    IF S = {} THEN <<>>
    ELSE LET m == CHOOSE x \in S : \A y \in S : x <= y
         IN <<m>> \o SortedKeys(S \ {m})

\* pickle.dump(self.metadata): the dict as a list of (key, value) items.
pickle_dump(md) ==
    [st |-> "ok",
     items |-> [i \in 1..Cardinality(DOMAIN md) |->
                   LET k == SortedKeys(DOMAIN md)[i] IN <<k, md[k]>>]]

\* pickle.load of a well-formed file.
pickle_load(f) ==
    LET keys == {f.items[i][1] : i \in 1..Len(f.items)}
    IN [k \in keys |->
           LET i == CHOOSE i \in 1..Len(f.items) : f.items[i][1] = k
           IN f.items[i][2]]

exists(f) == f.st # "absent"

\* Number of entries a file holds (absent: none).
Entries(f) ==
    IF f.st # "ok" THEN 0
    ELSE IF "ntotal" \in DOMAIN f THEN f.ntotal ELSE Len(f.items)

\* dict assignment md[k] = v
DictSet(md, k, v) == [j \in DOMAIN md \cup {k} |-> IF j = k THEN v ELSE md[j]]

EmptyDict == <<>>

(***************************************************************************)
(* The document store: state after the program text is loaded, before the  *)
(* startup hook has run.                                                   *)
(***************************************************************************)
NoResp == [op |-> "none"]

\* No add_document is running.
NoCur == [doc |-> NoDoc, idx |-> 0]

StoreInit ==
    /\ pc = "down"
    /\ vector_db = "None"
    /\ index = None
    /\ metadata = EmptyDict
    /\ doc_count = 0
    /\ index_file = Absent
    /\ metadata_file = Absent
    /\ clock = 0
    /\ cur = NoCur
    /\ task = "none"
    /\ batch = <<>>
    /\ batch_in = <<>>
    /\ batch_base = 0
    /\ resp = NoResp
    /\ origin = "none"
    /\ n_ok = 0

\* VectorDBManager.initialize: the store it leaves behind and whether it raised.
\* Both files present: read_index, then pickle.load; either raises on a
\* malformed file, after the assignments before it took effect.
initialize(ifile, mfile) ==
    IF exists(ifile) /\ exists(mfile)
    THEN IF ifile.st = "corrupt"
         THEN [index |-> None, metadata |-> EmptyDict, raised |-> TRUE, empty |-> FALSE]
         ELSE IF mfile.st = "corrupt"
         THEN [index |-> read_index(ifile), metadata |-> EmptyDict,
               raised |-> TRUE, empty |-> FALSE]
         ELSE [index |-> read_index(ifile), metadata |-> pickle_load(mfile),
               raised |-> FALSE, empty |-> FALSE]
    ELSE [index |-> IndexFlatL2(Dim), metadata |-> EmptyDict,
          raised |-> FALSE, empty |-> TRUE]

\* lifespan of server.py: everything before vector_db is assigned may raise
\* (early = TRUE); otherwise vector_db is assigned and initialize runs.
lifespan(early) ==
    /\ server = "python-server"
    /\ pc = "down"
    /\ pc' = "idle"
    /\ IF early
       THEN /\ vector_db' = "None"
            /\ index' = None
            /\ metadata' = EmptyDict
            /\ origin' = "none"
            /\ resp' = [op |-> "startup", ok |-> FALSE]
       ELSE LET st == initialize(index_file, metadata_file) IN
            /\ vector_db' = "VectorDBManager"
            /\ index' = st.index
            /\ metadata' = st.metadata
            /\ origin' = IF st.raised THEN "failed"
                          ELSE IF st.empty THEN "empty" ELSE "loaded"
            /\ resp' = [op |-> "startup", ok |-> ~st.raised]
    /\ n_ok' = 0
    /\ UNCHANGED <<chatVars, enhVars, server, doc_count, index_file, metadata_file, clock, cur,
                   task, batch, batch_in, batch_base>>

\* startup_event of the embedded server: SimpleVectorDB(embedder), index None.
startup_event(early) ==
    /\ server = "embedded"
    /\ pc = "down"
    /\ pc' = "idle"
    /\ vector_db' = IF early THEN "None" ELSE "SimpleVectorDB"
    /\ index' = None
    /\ metadata' = EmptyDict
    /\ doc_count' = 0
    /\ origin' = IF early THEN "none" ELSE "empty"
    /\ n_ok' = 0
    /\ resp' = [op |-> "startup", ok |-> ~early]
    /\ UNCHANGED <<chatVars, enhVars, server, index_file, metadata_file, clock, cur, task, batch,
                   batch_in, batch_base>>

\* Status answered by an endpoint whose body raised `raised` (0: nothing was
\* raised).  The body is wrapped in `try: ... except Exception as e: raise
\* HTTPException(status_code=500, ...)`; HTTPException is an Exception, so the
\* HTTPException(503) raised inside the try block is answered as 500 as well.
EndpointStatus(raised) == IF raised = 0 THEN 200 ELSE 500

\* The current store object was created empty.
created_empty == origin = "empty"

\* No coroutine is running: a request handler may start.
Idle == pc = "idle" /\ task = "none"

\* The running add_document returns (ok) or raises (~ok) to its caller.
\* /documents/add answers 200 or 500; process_batch_documents logs the
\* exception and goes on; the embedded /documents/batch handler stops at the
\* first exception and answers 500.
Return(caller, ok, pos, rest) ==
    /\ pc' = "idle"
    /\ n_ok' = IF ok THEN n_ok + 1 ELSE n_ok
    /\ IF caller = "add"
       THEN /\ resp' = [op |-> "add",
                        status |-> EndpointStatus(IF ok THEN 0 ELSE 500),
                        position |-> pos]
            /\ task' = "none"
            /\ batch' = batch
       ELSE IF server = "python-server"
       THEN /\ resp' = [op |-> IF rest = <<>> THEN "batch_done" ELSE "batch_item",
                        status |-> IF ok THEN 200 ELSE 500, position |-> pos]
            /\ task' = IF rest = <<>> THEN "none" ELSE "batch"
            /\ batch' = rest
       ELSE IF ok /\ rest # <<>>
       THEN /\ resp' = [op |-> "batch_item", status |-> 200, position |-> pos]
            /\ task' = "batch"
            /\ batch' = rest
       ELSE /\ resp' = [op |-> "batch_done",
                        status |-> EndpointStatus(IF ok THEN 0 ELSE 500),
                        position |-> pos]
            /\ task' = "none"
            /\ batch' = <<>>

\* add_document up to and including index.add, for either store class.
\* `caller` is "add" or "batch", `rest` the documents of the batch after doc.
BeginAdd(doc, caller, rest) ==
    LET ix == IF server = "embedded" /\ index = None
              THEN IndexFlatL2(Dim) ELSE index
        raises ==
            \/ encode_raises(doc.content)
            \/ ix = None
            \/ index_add_raises(ix, encode(doc.content))
    IN
    IF raises
    THEN /\ index' = ix
         /\ Return(caller, FALSE, 0 - 1, rest)
         /\ UNCHANGED <<cur>>
    ELSE /\ index' = index_add(ix, encode(doc.content))
         /\ cur' = [doc |-> doc, idx |-> 0]
         /\ pc' = "appended"
         /\ task' = caller
         /\ batch' = rest
         /\ resp' = [op |-> "running"]
         /\ UNCHANGED <<n_ok>>

\* POST /documents/add.  The 503 raised for an unset vector_db is raised inside
\* the handler's try block, whose `except Exception` turns it into a 500.
add_document_endpoint(doc) ==
    /\ Idle
    /\ clock < MaxAdds
    /\ IF vector_db = "None"
       THEN /\ resp' = [op |-> "add", status |-> EndpointStatus(503),
                        position |-> 0 - 1]
            /\ UNCHANGED <<pc, index, cur, task, batch, n_ok>>
       ELSE BeginAdd(doc, "add", batch)
    /\ batch_in' = <<>>
    /\ batch_base' = 0
    /\ UNCHANGED <<chatVars, enhVars, server, vector_db, metadata, doc_count, index_file,
                   metadata_file, clock, origin>>

\* The record add_document stores.
Record(doc, now) ==
    [doc_id |-> doc.doc_id, content |-> doc.content, metadata |-> doc.metadata,
     timestamp |-> now]

\* Mutant of VDB_store_metadata: idx = index.ntotal (the "- 1" forgotten).
VDB_store_metadata_off_by_one ==
    /\ server = "python-server"
    /\ pc = "appended"
    /\ LET idx == ntotal(index) IN
       /\ metadata' = DictSet(metadata, idx, Record(cur.doc, clock))
       /\ cur' = [cur EXCEPT !.idx = idx]
    /\ clock' = clock + 1
    /\ pc' = "stored"
    /\ UNCHANGED <<chatVars, enhVars, server, vector_db, index, doc_count, index_file,
                   metadata_file, task, batch, batch_in, batch_base, resp,
                   origin, n_ok>>

\* VectorDBManager.add_document, "Store metadata": idx = index.ntotal - 1.
VDB_store_metadata ==
    /\ server = "python-server"
    /\ pc = "appended"
    /\ LET idx == ntotal(index) - 1 IN
       /\ metadata' = DictSet(metadata, idx, Record(cur.doc, clock))
       /\ cur' = [cur EXCEPT !.idx = idx]
    /\ clock' = clock + 1
    /\ pc' = "stored"
    /\ UNCHANGED <<chatVars, enhVars, server, vector_db, index, doc_count, index_file, metadata_file,
                   task, batch, batch_in, batch_base, resp, origin, n_ok>>

\* SimpleVectorDB.add_document, "Store metadata": keyed by doc_count, which is
\* then incremented; the call returns.
SVDB_store_metadata ==
    /\ server = "embedded"
    /\ pc = "appended"
    /\ metadata' = DictSet(metadata, doc_count, Record(cur.doc, clock))
    /\ cur' = NoCur
    /\ doc_count' = doc_count + 1
    /\ clock' = clock + 1
    /\ Return(task, TRUE, doc_count, batch)
    /\ UNCHANGED <<chatVars, enhVars, server, vector_db, index, index_file, metadata_file,
                   batch_in, batch_base, origin>>

\* VectorDBManager.save, first write: faiss.write_index(self.index, index_path).
save_write_index ==
    /\ pc = "stored"
    /\ index_file' = write_index(index)
    /\ pc' = "index_written"
    /\ UNCHANGED <<chatVars, enhVars, server, vector_db, index, metadata, doc_count, metadata_file,
                   clock, cur, task, batch, batch_in, batch_base, resp,
                   origin, n_ok>>

\* faiss.write_index raises (OSError): the file is untouched or half written.
save_write_index_raises(partial) ==
    /\ pc = "stored"
    /\ index_file' = IF partial THEN Corrupt ELSE index_file
    /\ cur' = NoCur
    /\ Return(task, FALSE, cur.idx, batch)
    /\ UNCHANGED <<chatVars, enhVars, server, vector_db, index, metadata, doc_count, metadata_file,
                   clock, batch_in, batch_base, origin>>

\* Mutant of save_dump_metadata: save returns without writing the metadata file.
save_dump_metadata_skipped ==
    /\ pc = "index_written"
    /\ metadata_file' = metadata_file
    /\ cur' = NoCur
    /\ Return(task, TRUE, cur.idx, batch)
    /\ UNCHANGED <<chatVars, enhVars, server, vector_db, index, metadata, doc_count,
                   index_file, clock, batch_in, batch_base, origin>>

\* VectorDBManager.save, second write: pickle.dump(self.metadata, f); save and
\* add_document return.
save_dump_metadata ==
    /\ pc = "index_written"
    /\ metadata_file' = pickle_dump(metadata)
    /\ cur' = NoCur
    /\ Return(task, TRUE, cur.idx, batch)
    /\ UNCHANGED <<chatVars, enhVars, server, vector_db, index, metadata, doc_count, index_file,
                   clock, batch_in, batch_base, origin>>

\* open(metadata_path, 'wb') or pickle.dump raises: the file is untouched
\* (open failed) or truncated (dump failed).
save_dump_metadata_raises(partial) ==
    /\ pc = "index_written"
    /\ metadata_file' = IF partial THEN Corrupt ELSE metadata_file
    /\ cur' = NoCur
    /\ Return(task, FALSE, cur.idx, batch)
    /\ UNCHANGED <<chatVars, enhVars, server, vector_db, index, metadata, doc_count, index_file,
                   clock, batch_in, batch_base, origin>>

\* The search results of VectorDBManager.search / SimpleVectorDB.search for a
\* non-empty index and k = min(top_k, ntotal) > 0: positions without a
\* metadata entry are skipped.
RECURSIVE PrepareResults(_, _)
PrepareResults(found, md) ==
    IF found = <<>> THEN <<>>
    ELSE LET h == Head(found)
             rest == PrepareResults(Tail(found), md)
         IN IF h.idx \in DOMAIN md
            THEN <<[doc_id |-> md[h.idx].doc_id, content |-> md[h.idx].content,
                    metadata |-> md[h.idx].metadata,
                    timestamp |-> md[h.idx].timestamp,
                    score |-> h.distance]>> \o rest
            ELSE rest

\* search(query, top_k): [raised, results].
search(query, top_k) ==
    IF index = None
    THEN [raised |-> server = "python-server", results |-> <<>>]
    ELSE IF ntotal(index) = 0
    THEN [raised |-> FALSE, results |-> <<>>]
    ELSE LET q == encode(query)
             k == Min(top_k, ntotal(index))
         IN IF index_search_raises(index, q, k)
            THEN [raised |-> TRUE, results |-> <<>>]
            ELSE [raised |-> FALSE,
                  results |-> PrepareResults(index_search(index, q, k), metadata)]

\* POST /documents/search.
search_documents(query, top_k) ==
    /\ Idle
    /\ LET r == IF vector_db = "None"
                THEN [raised |-> TRUE, results |-> <<>>]
                ELSE search(query, top_k)
       IN resp' = [op |-> "search",
                   status |-> EndpointStatus(IF vector_db = "None" THEN 503
                                             ELSE IF r.raised THEN 500 ELSE 0),
                   query |-> query, top_k |-> top_k, results |-> r.results]
    /\ batch_in' = <<>>
    /\ batch_base' = 0
    /\ UNCHANGED <<chatVars, enhVars, server, pc, vector_db, index, metadata, doc_count, index_file,
                   metadata_file, clock, cur, task, batch,
                   origin, n_ok>>

\* Sequences over S of length 1..n.
SeqsUpTo(S, n) == UNION {[1..m -> S] : m \in 1..n}

BaseSize == IF index = None THEN 0 ELSE ntotal(index)

\* POST /documents/batch of server.py: the batch is handed to a background
\* task (process_batch_documents) and the request answers at once.  The task
\* runs on the same event loop after the response is sent; requests handled
\* between the two commute with the hand-over, so the task is scheduled here.
batch_add_documents_bg(docs) ==
    /\ server = "python-server"
    /\ Idle
    /\ clock + Len(docs) <= MaxAdds
    /\ IF vector_db = "None"
       THEN /\ resp' = [op |-> "batch", status |-> EndpointStatus(503)]
            /\ UNCHANGED <<task, batch, batch_in, batch_base>>
       ELSE /\ resp' = [op |-> "batch", status |-> 200]
            /\ task' = "batch"
            /\ batch' = docs
            /\ batch_in' = docs
            /\ batch_base' = BaseSize
    /\ UNCHANGED <<chatVars, enhVars, server, pc, vector_db, index, metadata, doc_count,
                   index_file, metadata_file, clock, cur, origin, n_ok>>

\* process_batch_documents: one iteration of `for doc in documents`, up to the
\* point where add_document has appended to the index or raised.
process_batch_documents ==
    /\ server = "python-server"
    /\ pc = "idle"
    /\ task = "batch"
    /\ BeginAdd(Head(batch), "batch", Tail(batch))
    /\ UNCHANGED <<chatVars, enhVars, server, vector_db, metadata, doc_count, index_file,
                   metadata_file, clock, batch_in, batch_base, origin>>

\* POST /documents/batch of the embedded server: the handler itself loops.
batch_add_documents(docs) ==
    /\ server = "embedded"
    /\ Idle
    /\ clock + Len(docs) <= MaxAdds
    /\ IF vector_db = "None"
       THEN /\ resp' = [op |-> "batch", status |-> EndpointStatus(503)]
            /\ UNCHANGED <<pc, index, cur, task, batch, batch_in, batch_base, n_ok>>
       ELSE /\ batch_in' = docs
            /\ batch_base' = BaseSize
            /\ BeginAdd(Head(docs), "batch", Tail(docs))
    /\ UNCHANGED <<chatVars, enhVars, server, vector_db, metadata, doc_count, index_file,
                   metadata_file, clock, origin>>

\* The embedded handler's loop goes on with the next document.
batch_next ==
    /\ server = "embedded"
    /\ pc = "idle"
    /\ task = "batch"
    /\ BeginAdd(Head(batch), "batch", Tail(batch))
    /\ UNCHANGED <<chatVars, enhVars, server, vector_db, metadata, doc_count, index_file,
                   metadata_file, clock, batch_in, batch_base, origin>>

\* The process stops (shutdown or kill) at any point; a write in progress may
\* leave its file half written.  Memory is lost, the files stay.
Stop(partial) ==
    /\ pc # "down"
    /\ partial => pc \in {"stored", "index_written"}
    /\ index_file' = IF partial /\ pc = "stored" THEN Corrupt ELSE index_file
    /\ metadata_file' =
          IF partial /\ pc = "index_written" THEN Corrupt ELSE metadata_file
    /\ pc' = "down"
    /\ vector_db' = "None"
    /\ index' = None
    /\ metadata' = EmptyDict
    /\ doc_count' = 0
    /\ cur' = NoCur
    /\ task' = "none"
    /\ batch' = <<>>
    /\ batch_in' = <<>>
    /\ batch_base' = 0
    /\ resp' = NoResp
    /\ origin' = "none"
    /\ n_ok' = 0
    /\ UNCHANGED <<chatVars, enhVars, server, clock>>

StoreNext ==
    \/ \E early \in BOOLEAN : lifespan(early)
    \/ \E early \in BOOLEAN : startup_event(early)
    \/ \E doc \in Docs : add_document_endpoint(doc)
    \/ VDB_store_metadata
    \/ SVDB_store_metadata
    \/ save_write_index
    \/ \E partial \in BOOLEAN : save_write_index_raises(partial)
    \/ save_dump_metadata
    \/ \E partial \in BOOLEAN : save_dump_metadata_raises(partial)
    \/ \E q \in Queries, k \in TopKs : search_documents(q, k)
    \/ \E docs \in SeqsUpTo(Docs, MaxBatch) : batch_add_documents_bg(docs)
    \/ process_batch_documents
    \/ \E docs \in SeqsUpTo(Docs, MaxBatch) : batch_add_documents(docs)
    \/ batch_next
    \/ \E partial \in BOOLEAN : Stop(partial)

\* The enhancer is not part of this specification's runs.
EnhIdle ==
    /\ text = ""
    /\ results = <<>>
    /\ name_to_info = <<>>
    /\ enhanced_response = ""
    /\ out = ""
    /\ epc = "off"

\* No /chat request is part of this specification's runs.
ChatIdle ==
    /\ cpc = "off"
    /\ message = ""
    /\ search_results = <<>>
    /\ context_text = ""
    /\ reply = [kind |-> "none"]
    /\ calls = 0
    /\ response_text = None
    /\ chat_resp = NoResp

Init ==
    /\ server \in {"python-server", "embedded"}
    /\ StoreInit /\ EnhIdle /\ ChatIdle

Next == StoreNext

Spec == Init /\ [][Next]_vars

(***************************************************************************)
(* enhance_response_with_links (embedded server).  Texts are strings; the  *)
(* character BS stands for the backspace character U+0008, for which TLA+  *)
(* strings have no escape.                                                 *)
(***************************************************************************)
BS == "^"

Char(s, i) == SubSeq(s, i, i)

RECURSIVE MapStr(_, _)
\* The string s with every character c replaced by F(c).
MapStr(F(_), s) == IF s = "" THEN "" ELSE F(Head(s)) \o MapStr(F, Tail(s))

UpperCase == "ABCDEFGHIJKLMNOPQRSTUVWXYZ"
LowerCase == "abcdefghijklmnopqrstuvwxyz"

LowerChar(c) ==
    IF \E i \in 1..Len(UpperCase) : Char(UpperCase, i) = c
    THEN Char(LowerCase, CHOOSE i \in 1..Len(UpperCase) : Char(UpperCase, i) = c)
    ELSE c

\* name.lower().replace(' ', '-')
SpaceToHyphen(c) == IF c = " " THEN "-" ELSE c
NameSlug(name) == MapStr(SpaceToHyphen, MapStr(LowerChar, name))

HasChar(s, c) == \E i \in 1..Len(s) : Char(s, i) = c

\* s.split(c, 1)[1]: what follows the first c.
AfterFirst(s, c) ==
    LET i == CHOOSE i \in 1..Len(s) :
                /\ Char(s, i) = c
                /\ \A j \in 1..(i - 1) : Char(s, j) # c
    IN SubSeq(s, i + 1, Len(s))

\* d.get(k), with None and '' both read as '' (both are falsy).
Get(d, k) == IF k \in DOMAIN d THEN d[k] ELSE ""

\* a or b
Or(a, b) == IF a # "" THEN a ELSE b

\* name_to_info[name] = info on an insertion-ordered dict: a known name keeps
\* its place and gets the new info.
TablePut(table, entry) ==
    IF \E i \in 1..Len(table) : table[i].name = entry.name
    THEN [i \in 1..Len(table) |->
             IF table[i].name = entry.name THEN entry ELSE table[i]]
    ELSE Append(table, entry)

\* The entry one search result contributes (name '' : none).
ResultEntry(result) ==
    IF "metadata" \in DOMAIN result /\ DOMAIN result.metadata # {}
    THEN LET md == result.metadata
             name == Or(Get(md, "name"), Or(Get(md, "methodName"),
                                            Get(md, "componentName")))
             doc_type == IF "type" \in DOMAIN md THEN md.type ELSE "function"
             doc_id == Get(result, "doc_id")
             given == Or(Get(md, "slug"), Get(md, "componentSlug"))
             slug == IF given # "" THEN given
                     ELSE IF HasChar(doc_id, "_") THEN AfterFirst(doc_id, "_")
                     ELSE NameSlug(name)
         IN [name |-> name, slug |-> slug, type |-> doc_type]
    ELSE [name |-> "", slug |-> "", type |-> ""]

RECURSIVE BuildTable(_, _)
\* The loop `for result in search_results` that fills name_to_info.
BuildTable(rs, table) ==
    IF rs = <<>> THEN table
    ELSE LET entry == ResultEntry(Head(rs))
         IN BuildTable(Tail(rs),
                       IF entry.name # "" THEN TablePut(table, entry) ELSE table)

\* Metadata names that stand for a value that is not a str: the name "12345"
\* is the JSON number 12345.
IntNames == {"12345"}

\* Processing this result raises in the table-building loop: the result is
\* None ('metadata' in None is a TypeError), or its name is a number and the
\* slug has to be made by name.lower() (AttributeError).
ResultRaises(result) ==
    \/ result = None
    \/ LET entry == ResultEntry(result) IN
       /\ entry.name \in IntNames
       /\ Or(Get(result.metadata, "slug"),
             Get(result.metadata, "componentSlug")) = ""
       /\ ~HasChar(Get(result, "doc_id"), "_")

BuildRaises(rs) == \E i \in 1..Len(rs) : ResultRaises(rs[i])

\* len(name) raises a TypeError in the replacement loop.
ReplaceRaises(entry) == entry.name \in IntNames

route_prefix(type) ==
    IF type = "component" THEN "components"
    ELSE IF type = "class" THEN "classes"
    ELSE "functions"

\* link = f"[{name}](/{route_prefix}/{info['slug']})"
Link(entry) ==
    "[" \o entry.name \o "](/" \o route_prefix(entry.type) \o "/" \o entry.slug \o ")"

\* The lookahead (?![^\[]*\]) fails at position j: a "]" follows with no "["
\* before it.
ClosesBracket(t, j) ==
    \E m \in j..Len(t) :
       /\ Char(t, m) = "]"
       /\ \A u \in j..(m - 1) : Char(t, u) # "["

\* pattern = f"\b{re.escape(name)}\b(?![^\[]*\])" is not a raw string: each
\* "\b" is the backspace character, so the pattern matches BS name BS, not
\* followed by a closing bracket.  The match starts at i.
PatternMatchesAt(t, name, i) ==
    LET n == Len(name) IN
    /\ i + n + 1 <= Len(t)
    /\ Char(t, i) = BS
    /\ SubSeq(t, i + 1, i + n) = name
    /\ Char(t, i + n + 1) = BS
    /\ ~ClosesBracket(t, i + n + 2)

\* re.search(pattern, t)
PatternFound(t, name) == \E i \in 1..Len(t) : PatternMatchesAt(t, name, i)

\* re.sub(pattern, link, t, count=1): the leftmost match is replaced.
SubFirst(t, name, link) ==
    LET i == CHOOSE i \in 1..Len(t) :
                /\ PatternMatchesAt(t, name, i)
                /\ \A j \in 1..(i - 1) : ~PatternMatchesAt(t, name, j)
    IN SubSeq(t, 1, i - 1) \o link \o SubSeq(t, i + Len(name) + 2, Len(t))

\* One iteration of `for name, info in name_to_info.items()`.
ReplaceName(t, entry) ==
    IF Len(entry.name) < 3 THEN t
    ELSE IF PatternFound(t, entry.name) THEN SubFirst(t, entry.name, Link(entry))
    ELSE t

\* Inputs of the enhancer runs.
MaxPieces == 3

Pieces == {"abc", "^abc^", " ", "[", "]", "x"}

RECURSIVE Concat(_)
Concat(ps) == IF ps = <<>> THEN "" ELSE Head(ps) \o Concat(Tail(ps))

ScenarioText == "Use parseConfig to read settings."

Texts == {Concat(ps) : ps \in SeqsUpTo(Pieces, MaxPieces)} \cup {ScenarioText}

ScenarioResult ==
    [doc_id |-> "fn_parseConfig", content |-> "parses the config file",
     metadata |-> [name |-> "parseConfig", type |-> "function"], score |-> 0]

ResultSets ==
    { <<>>,
      <<ScenarioResult>>,
      <<[doc_id |-> "fn_abc", metadata |-> [name |-> "abc", type |-> "function"]]>>,
      <<[doc_id |-> "c1",
         metadata |-> [componentName |-> "abc", type |-> "component",
                       componentSlug |-> "abc-view"]]>>,
      <<[doc_id |-> "m_x", metadata |-> [methodName |-> "x", type |-> "method"]],
        [doc_id |-> "k1", metadata |-> [name |-> "abc", type |-> "class"]]>>,
      <<[doc_id |-> "n1"],
        [doc_id |-> "n2", metadata |-> [name |-> "A bc", filePath |-> "a.ts"]],
        [doc_id |-> "fn_abc", metadata |-> [name |-> "abc"]]>>,
      <<[doc_id |-> "fn_abc", metadata |-> [name |-> "abc", type |-> "function"]],
        None>>,
      <<[doc_id |-> "fn_abc", metadata |-> [name |-> "abc", type |-> "function"]],
        [doc_id |-> "fn_12345", metadata |-> [name |-> "12345"]]>>,
      <<[doc_id |-> "n5", metadata |-> [name |-> "12345"]]>> }

EnhInit ==
    /\ text \in Texts
    /\ results \in ResultSets
    /\ name_to_info = <<>>
    /\ enhanced_response = ""
    /\ out = ""
    /\ epc = "start"

\* Lines 270-306: the early return on no results; else the table is built and
\* enhanced_response starts as the response, unless a result makes the loop
\* raise.
enhance_build ==
    /\ epc = "start"
    /\ IF results = <<>>
       THEN /\ out' = text
            /\ epc' = "done"
            /\ UNCHANGED <<name_to_info, enhanced_response>>
       ELSE IF BuildRaises(results)
       THEN /\ epc' = "raised"
            /\ UNCHANGED <<name_to_info, enhanced_response, out>>
       ELSE /\ name_to_info' = BuildTable(results, <<>>)
            /\ enhanced_response' = text
            /\ epc' = "loop"
            /\ UNCHANGED out
    /\ UNCHANGED <<storeVars, chatVars, text, results>>

\* Lines 307-329: one iteration of the replacement loop.
enhance_replace ==
    /\ epc = "loop"
    /\ name_to_info # <<>>
    /\ IF ReplaceRaises(Head(name_to_info))
       THEN /\ epc' = "raised"
            /\ UNCHANGED <<enhanced_response, name_to_info>>
       ELSE /\ enhanced_response' =
                  ReplaceName(enhanced_response, Head(name_to_info))
            /\ name_to_info' = Tail(name_to_info)
            /\ UNCHANGED epc
    /\ UNCHANGED <<storeVars, chatVars, text, results, out>>

\* Line 332: return enhanced_response.
enhance_return ==
    /\ epc = "loop"
    /\ name_to_info = <<>>
    /\ out' = enhanced_response
    /\ epc' = "done"
    /\ UNCHANGED <<storeVars, chatVars, text, results, name_to_info, enhanced_response>>

\* Mutant of enhance_except: the text rewritten so far is returned.
enhance_except_partial ==
    /\ epc = "raised"
    /\ out' = IF enhanced_response = "" THEN text ELSE enhanced_response
    /\ epc' = "recovered"
    /\ UNCHANGED <<storeVars, chatVars, text, results, name_to_info,
                   enhanced_response>>

\* Lines 334-336: `except Exception` returns response, the original text.
enhance_except ==
    /\ epc = "raised"
    /\ out' = text
    /\ epc' = "recovered"
    /\ UNCHANGED <<storeVars, chatVars, text, results, name_to_info,
                   enhanced_response>>

\* The function has returned, from line 272 or 332 ("done") or from the
\* except branch ("recovered").
EnhReturned == epc \in {"done", "recovered"}

EnhNext ==
    \/ enhance_build
    \/ enhance_replace
    \/ enhance_return
    \/ enhance_except

RECURSIVE ReplaceAll(_, _)
\* The loop `for name, info in name_to_info.items()` run to its end.
ReplaceAll(t, table) ==
    IF table = <<>> THEN t
    ELSE ReplaceAll(ReplaceName(t, Head(table)), Tail(table))

\* One whole call of the function, as the steps above compute it.
enhance_response_with_links(response, rs) ==
    IF rs = <<>> THEN response
    ELSE IF BuildRaises(rs) THEN response
    ELSE LET table == BuildTable(rs, <<>>) IN
         IF \E i \in 1..Len(table) : ReplaceRaises(table[i]) THEN response
         ELSE ReplaceAll(response, table)

\* The enhancer applied to every text and result set of the bounded inputs.
InitEnhance == server = "embedded" /\ StoreInit /\ EnhInit /\ ChatIdle

SpecEnhance == InitEnhance /\ [][EnhNext]_vars

(***************************************************************************)
(* The /chat flow of the embedded server: chat and                         *)
(* generate_ollama_response.  A Python value that is a str or None is      *)
(* Str(s) or None.                                                         *)
(***************************************************************************)
Str(s) == [str |-> s]

\* top_k of the search made by chat.
ChatTopK == 5
\* r['content'][:200]
ContentCut == 200
\* search_results[:3]
ContextResults == 3
\* context[:300]
ContextCut == 300

\* s[:n]
Prefix(s, n) == SubSeq(s, 1, Min(n, Len(s)))

RECURSIVE Repeat(_, _)
Repeat(s, n) == IF n = 0 THEN "" ELSE s \o Repeat(s, n - 1)

RECURSIVE Join(_, _)
\* sep.join(parts)
Join(sep, parts) ==
    IF parts = <<>> THEN ""
    ELSE IF Len(parts) = 1 THEN parts[1]
    ELSE parts[1] \o sep \o Join(sep, Tail(parts))

\* context_text = "\n".join([r['content'][:200] + "..." for r in search_results[:3]])
Context(rs) ==
    IF rs = <<>> THEN ""
    ELSE Join("\n", [i \in 1..Min(ContextResults, Len(rs)) |->
                        Prefix(rs[i].content, ContentCut) \o "..."])

\* The two fallback messages of generate_ollama_response.
FallbackNot200(context) ==
    "Based on the documentation: " \o Prefix(context, ContextCut)
       \o "... I can help answer questions about this code."

FallbackExcept(context) ==
    "I found relevant documentation: " \o Prefix(context, ContextCut)
       \o "... Please let me know if you need more specific information."

\* Documents held by the store of a chat run: a content longer than the cuts,
\* mentioning the name abc between backspace characters, a short one, and
\* one whose metadata name is a number (metadata: Dict[str, Any]).
LongContent == Repeat("^abc^ xyz ", 25)

ChatDocs ==
    << [doc_id |-> "fn_abc", content |-> LongContent,
        metadata |-> [name |-> "abc", type |-> "function"]],
       [doc_id |-> "k1", content |-> "c1",
        metadata |-> [name |-> "xyz", type |-> "class"]],
       [doc_id |-> "fn_12345", content |-> "c2",
        metadata |-> [name |-> "12345"]] >>

ChatStores ==
    { <<>>,
      <<ChatDocs[1]>>,
      <<ChatDocs[1], ChatDocs[2]>>,
      <<ChatDocs[1], ChatDocs[3]>>,
      <<ChatDocs[2], ChatDocs[1], ChatDocs[1], ChatDocs[2]>> }

RECURSIVE StoreOf(_, _)
\* The SimpleVectorDB after add_document of each of docs, starting from st.
StoreOf(docs, st) ==
    IF docs = <<>> THEN st
    ELSE LET doc == Head(docs)
             ix == IF st.index = None THEN IndexFlatL2(Dim) ELSE st.index
         IN StoreOf(Tail(docs),
                    [index |-> index_add(ix, encode(doc.content)),
                     metadata |-> DictSet(st.metadata, st.doc_count,
                                          Record(doc, st.doc_count)),
                     doc_count |-> st.doc_count + 1])

\* What `await client.post(...)` and the reading of the reply can produce:
\*   ok           status 200, JSON {"message": {"content": <str>}}
\*   no_content   status 200, JSON object without message.content
\*   null_content status 200, JSON {"message": {"content": null}}
\*   bad_json     status 200, body that is not a JSON object (response.json()
\*                or .get raises)
\*   status       a status other than 200
\*   timeout      httpx.TimeoutException after 30 s
\*   connect      httpx.ConnectError
Replies ==
    { [kind |-> "ok", content |-> "^abc^ parses"],
      [kind |-> "ok", content |-> "see abc"],
      [kind |-> "no_content"],
      [kind |-> "null_content"],
      [kind |-> "bad_json"],
      [kind |-> "status"],
      [kind |-> "timeout"],
      [kind |-> "connect"] }

\* A failure of the generation backend.
BackendFailed(rep) ==
    rep.kind \in {"null_content", "bad_json", "status", "timeout", "connect"}

\* State of a running embedded server holding the documents docs.
ChatInit ==
    /\ server = "embedded"
    /\ pc = "idle"
    /\ vector_db \in {"None", "SimpleVectorDB"}
    /\ \E docs \in ChatStores :
          LET st == StoreOf(docs, [index |-> None, metadata |-> EmptyDict,
                                   doc_count |-> 0])
          IN /\ vector_db = "None" => docs = <<>>
             /\ index = st.index
             /\ metadata = st.metadata
             /\ doc_count = st.doc_count
             /\ clock = st.doc_count
             /\ n_ok = st.doc_count
    /\ index_file = Absent
    /\ metadata_file = Absent
    /\ cur = NoCur
    /\ task = "none"
    /\ batch = <<>>
    /\ batch_in = <<>>
    /\ batch_base = 0
    /\ resp = NoResp
    /\ origin = IF vector_db = "None" THEN "none" ELSE "empty"
    /\ EnhIdle
    /\ cpc = "idle"
    /\ message = ""
    /\ search_results = <<>>
    /\ context_text = ""
    /\ reply = [kind |-> "none"]
    /\ calls = 0
    /\ response_text = None
    /\ chat_resp = NoResp

\* chat, lines 185-204: the vector search and the context, up to the call of
\* generate_ollama_response, which runs to its `await client.post(...)`.
chat(msg) ==
    /\ cpc = "idle"
    /\ Idle
    /\ message' = msg
    /\ IF vector_db = "None"
       THEN /\ chat_resp' = [status |-> EndpointStatus(503)]
            /\ cpc' = "done"
            /\ UNCHANGED <<search_results, context_text>>
       ELSE LET r == search(msg, ChatTopK) IN
            IF r.raised
            THEN /\ chat_resp' = [status |-> EndpointStatus(500)]
                 /\ cpc' = "done"
                 /\ UNCHANGED <<search_results, context_text>>
            ELSE /\ search_results' = r.results
                 /\ context_text' = Context(r.results)
                 /\ cpc' = "calling"
                 /\ UNCHANGED chat_resp
    /\ UNCHANGED <<storeVars, enhVars, reply, calls, response_text>>

\* generate_ollama_response, lines 238-263: the backend call comes back with
\* rep.  Status 200 with a text: enhance_response_with_links is called on it.
\* Another status: the first fallback is returned.  An exception (timeout,
\* connection error, unreadable body): the second fallback is returned.
\* A null content: enhance_response_with_links(None, ...) returns its
\* argument on every path (lines 272, 332 and 336), so None is returned.
generate_ollama_response(rep) ==
    /\ cpc = "calling"
    /\ reply' = rep
    /\ calls' = calls + 1
    /\ IF rep.kind \in {"ok", "no_content"}
       THEN /\ text' = IF rep.kind = "ok" THEN rep.content
                       ELSE "I couldn't generate a response."
            /\ results' = search_results
            /\ name_to_info' = <<>>
            /\ enhanced_response' = ""
            /\ out' = ""
            /\ epc' = "start"
            /\ cpc' = "enhancing"
            /\ UNCHANGED response_text
       ELSE /\ response_text' =
                  IF rep.kind = "null_content" THEN None
                  ELSE IF rep.kind = "status"
                  THEN Str(FallbackNot200(context_text))
                  ELSE Str(FallbackExcept(context_text))
            /\ cpc' = "generated"
            /\ UNCHANGED enhVars
    /\ UNCHANGED <<storeVars, message, search_results, context_text, chat_resp>>

\* Lines 256-257: enhance_response_with_links has returned; its value is
\* returned by generate_ollama_response.
generate_return ==
    /\ cpc = "enhancing"
    /\ EnhReturned
    /\ response_text' = Str(out)
    /\ cpc' = "generated"
    /\ UNCHANGED <<storeVars, enhVars, message, search_results, context_text,
                   reply, calls, chat_resp>>

\* chat, lines 206-215: ChatResponse(response=response_text, ...) is built and
\* returned; `response: str` rejects None with a ValidationError, which the
\* handler's `except Exception` answers as 500.
chat_return ==
    /\ cpc = "generated"
    /\ chat_resp' =
          IF response_text = None
          THEN [status |-> EndpointStatus(500)]
          ELSE [status |-> EndpointStatus(0), response |-> response_text.str,
                search_results_count |-> Len(search_results)]
    /\ cpc' = "done"
    /\ UNCHANGED <<storeVars, enhVars, message, search_results, context_text,
                   reply, calls, response_text>>

ChatNext ==
    \/ \E msg \in Queries : chat(msg)
    \/ \E rep \in Replies : generate_ollama_response(rep)
    \/ enhance_build
    \/ enhance_replace
    \/ enhance_return
    \/ enhance_except
    \/ generate_return
    \/ chat_return

SpecChat == ChatInit /\ [][ChatNext]_vars

(***************************************************************************)
(* Claims about the chat flow (specification SpecChat).                    *)
(***************************************************************************)
\* The chat request has answered with a text.
ChatReturnedText == cpc = "done" /\ "response" \in DOMAIN chat_resp

\* C12: every text the chat flow returns to the caller is the value that
\* enhance_response_with_links returned for this request's search results,
\* for the generated text and for the fallback texts alike.
C12_ReturnedTextEnhanced ==
    ChatReturnedText =>
        /\ EnhReturned
        /\ results = search_results
        /\ chat_resp.response = out

\* C13: when the generation backend fails (timeout, connection error, non-200
\* status, malformed reply), the backend was called exactly once and the chat
\* request answers successfully with a fallback message built from the first
\* 300 characters of the context.
C13_BackendFailureFallsBack ==
    (cpc = "done" /\ BackendFailed(reply)) =>
        /\ calls = 1
        /\ chat_resp.status = 200
        /\ chat_resp.response \in {FallbackNot200(context_text),
                                   FallbackExcept(context_text)}

(***************************************************************************)
(* Claims about the link enhancer (specification SpecEnhance).             *)
(***************************************************************************)
WordChars == "ABCDEFGHIJKLMNOPQRSTUVWXYZabcdefghijklmnopqrstuvwxyz0123456789_"

IsWordChar(c) == c # "" /\ HasChar(WordChars, c)

\* name occurs in t at i as a whole word that is not inside an existing link.
WholeWordAt(t, name, i) ==
    LET n == Len(name) IN
    /\ i + n - 1 <= Len(t)
    /\ SubSeq(t, i, i + n - 1) = name
    /\ IsWordChar(Char(t, i)) # (i > 1 /\ IsWordChar(Char(t, i - 1)))
    /\ IsWordChar(Char(t, i + n - 1))
          # (i + n <= Len(t) /\ IsWordChar(Char(t, i + n)))
    /\ ~ClosesBracket(t, i + n)

\* t with the first whole-word occurrence of the entry's name turned into its link.
LinkFirstWord(t, entry) ==
    IF \E i \in 1..Len(t) : WholeWordAt(t, entry.name, i)
    THEN LET i == CHOOSE i \in 1..Len(t) :
                     /\ WholeWordAt(t, entry.name, i)
                     /\ \A j \in 1..(i - 1) : ~WholeWordAt(t, entry.name, j)
         IN SubSeq(t, 1, i - 1) \o Link(entry)
               \o SubSeq(t, i + Len(entry.name), Len(t))
    ELSE t

ScenarioExpected == "Use [parseConfig](/functions/parseConfig) to read settings."

\* C10: enhancing "Use parseConfig to read settings." against the fn_parseConfig
\* result returns "Use [parseConfig](/functions/parseConfig) to read settings.";
\* in general, with one known name of at least 3 characters, the returned text
\* is the input with the first whole-word occurrence of the name that is not
\* inside a link replaced by [name](/{route}/{slug}).
C10_FirstMentionLinked ==
    epc = "done" =>
        /\ (text = ScenarioText /\ results = <<ScenarioResult>>)
              => out = ScenarioExpected
        /\ LET table == BuildTable(results, <<>>) IN
           (Len(table) = 1 /\ Len(table[1].name) >= 3)
              => out = LinkFirstWord(text, table[1])

\* C11: the enhancer applied to its own output, with the same search results,
\* returns that output unchanged: enhance(enhance(text, results), results)
\* equals enhance(text, results).
C11_SecondPassSame ==
    epc = "done" => enhance_response_with_links(out, results) = out

\* C14: enhance_response_with_links never raises: an exception raised inside
\* it is always answered by returning; it returns the input text when there
\* are no search results, and the original input text, not the partially
\* rewritten one, when a step failed.
C14_FailureReturnsInput ==
    /\ []((EnhReturned /\ results = <<>>) => out = text)
    /\ [](epc = "recovered" => out = text)
    /\ [][epc = "raised" => (epc' = "recovered" /\ out' = text)]_vars

\* A step failed after an earlier name had been turned into a link, and the
\* function has returned.
C14_Witness ==
    /\ epc = "recovered"
    /\ enhanced_response # ""
    /\ enhanced_response # text

(***************************************************************************)
(* Claims about the document store (specification Spec).                   *)
(***************************************************************************)
\* An add_document call has just returned normally.
AddReturned ==
    /\ resp.op \in {"add", "batch_item", "batch_done"}
    /\ resp.status = 200
    /\ resp.position >= 0

\* C1: whenever no add_document is part-way through, the number of vectors in
\* the index equals the number of metadata entries and the metadata keys are
\* exactly the positions 0..size-1.
C1_IndexAndMetadataAgree ==
    (pc = "idle" /\ origin \in {"empty", "loaded"}) =>
        /\ BaseSize = Cardinality(DOMAIN metadata)
        /\ DOMAIN metadata = 0..(BaseSize - 1)

\* Positions a well-formed file holds; a missing or malformed file holds none.
FilePositions(f) == 0..(Entries(f) - 1)

\* C2: a reader of the directory after the process stopped (such as the next
\* initialize) never finds an index file holding a vector whose record the
\* metadata file lacks, nor a metadata record whose vector the index file lacks.
C2_FilesNeverDisagree ==
    pc = "down" => FilePositions(index_file) = FilePositions(metadata_file)

\* C3: when initialize finds only one of the two files, or both with different
\* numbers of entries, the store starts empty.
C3_InconsistentFilesStartEmpty ==
    ( /\ resp.op = "startup"
      /\ vector_db = "VectorDBManager"
      /\ \/ exists(index_file) # exists(metadata_file)
         \/ /\ index_file.st = "ok"
            /\ metadata_file.st = "ok"
            /\ Entries(index_file) # Entries(metadata_file) )
    => /\ index # None
       /\ ntotal(index) = 0
       /\ metadata = EmptyDict

\* C4: after an add_document call of VectorDBManager has returned normally, a
\* fresh VectorDBManager running initialize on the directory holds the same
\* vectors at the same positions and the same position-to-record mapping as
\* the store in memory.
C4_AddPersistsStore ==
    (server = "python-server" /\ AddReturned) =>
        LET st == initialize(index_file, metadata_file) IN
        /\ ~st.raised
        /\ st.index = index
        /\ st.metadata = metadata

C4_Witness ==
    /\ server = "python-server"
    /\ AddReturned
    /\ created_empty
    /\ n_ok = 2
    /\ ntotal(index) = 2
    /\ metadata[0].timestamp # metadata[1].timestamp

ResultOf(r, d) ==
    [doc_id |-> r.doc_id, content |-> r.content, metadata |-> r.metadata,
     timestamp |-> r.timestamp, score |-> d]

\* C6: on a store holding n >= 1 vectors, search with top_k >= 1 returns exactly
\* min(top_k, n) results: the nearest positions by squared Euclidean distance
\* to the query, nearest first, equal distances by ascending position, each
\* result carrying the record stored at its position.
C6_SearchReturnsNearest ==
    ( /\ resp.op = "search"
      /\ origin \in {"empty", "loaded"}
      /\ index # None
      /\ ntotal(index) >= 1
      /\ resp.top_k >= 1 )
    => LET n == ntotal(index)
           q == encode(resp.query)
           dist(p) == L2sqr(q, index.vecs[p + 1])
           m == Len(resp.results)
       IN /\ resp.status = 200
          /\ m = Min(resp.top_k, n)
          /\ \E ps \in [1..m -> 0..(n - 1)] :
                /\ \A i \in 1..m :
                      /\ ps[i] \in DOMAIN metadata
                      /\ resp.results[i] = ResultOf(metadata[ps[i]], dist(ps[i]))
                /\ \A i, j \in 1..m :
                      i < j => \/ dist(ps[i]) < dist(ps[j])
                               \/ dist(ps[i]) = dist(ps[j]) /\ ps[i] < ps[j]
                /\ \A p \in (0..(n - 1)) \ {ps[i] : i \in 1..m} :
                      \A i \in 1..m :
                         \/ dist(ps[i]) < dist(p)
                         \/ dist(ps[i]) = dist(p) /\ ps[i] < p

\* C7: search with top_k = 0 on any initialized store, and search with any
\* top_k on an empty store, answers 200 with an empty result list.
C7_EmptySearchSucceeds ==
    ( /\ resp.op = "search"
      /\ vector_db # "None"
      /\ (server = "embedded" \/ index # None)
      /\ (resp.top_k = 0 \/ BaseSize = 0) )
    => /\ resp.status = 200
       /\ resp.results = <<>>

\* add_document does not fail on this document in encode or index.add.
Embeddable(doc) ==
    /\ ~encode_raises(doc.content)
    /\ Len(encode(doc.content)) = Dim

\* C8: when a batch has been processed, every document of it that add_document
\* could embed and append is stored, in batch order, whatever happened to the
\* other documents of the batch.
C8_BatchIsolation ==
    (resp.op = "batch_done" /\ index # None) =>
        LET good == SelectSeq(batch_in, Embeddable) IN
        \A i \in 1..Len(good) :
           /\ (batch_base + i - 1) \in DOMAIN metadata
           /\ metadata[batch_base + i - 1].doc_id = good[i].doc_id
           /\ metadata[batch_base + i - 1].content = good[i].content

\* C9: a /documents/add, /documents/search or /documents/batch request that
\* arrives while vector_db is unset, or set with an index that initialize never
\* created, is answered 503.
C9_UninitializedIs503 ==
    ( /\ resp.op \in {"add", "search", "batch"}
      /\ \/ vector_db = "None"
         \/ origin = "failed" /\ index = None )
    => resp.status = 503

\* An add_document call has appended its vector and has not yet returned.
MidAdd == pc \in {"appended", "stored", "index_written"}

\* The step is a search or the beginning of an add_document call.
SearchOrAddBegins ==
    \/ \E q \in Queries, k \in TopKs : search_documents(q, k)
    \/ \E doc \in Docs : add_document_endpoint(doc)
    \/ \E docs \in SeqsUpTo(Docs, MaxBatch) : batch_add_documents(docs)
    \/ process_batch_documents
    \/ batch_next

\* C15: between the step of an add_document that appends the vector and the
\* steps that store its record and persist the store, no search and no other
\* add runs; every search observes an index and a metadata table of the same
\* size; and no add stores its record at a position that already holds one.
C15_AddsAndSearchesExclusive ==
    /\ [][MidAdd => ~SearchOrAddBegins]_vars
    /\ []((resp.op = "search" /\ origin \in {"empty", "loaded"})
             => BaseSize = Cardinality(DOMAIN metadata))
    /\ [][(pc = "appended" /\ pc' # "down")
             => Cardinality(DOMAIN metadata') = Cardinality(DOMAIN metadata) + 1]_vars

\* A step in which a running or starting add_document call fails.
AddFails ==
    /\ vector_db # "None"
    /\ pc' = "idle"
    /\ resp'.op \in {"add", "batch_item", "batch_done"}
    /\ resp'.status = 500

\* Number of vectors and the metadata table before the failing call began:
\* a call that had appended its vector found cur.idx vectors (python-server:
\* idx = ntotal - 1) and no record at cur.idx.
SizeBeforeCall == IF MidAdd THEN ntotal(index) - 1 ELSE BaseSize

\* C16: an add_document call that fails leaves the in-memory index and the
\* metadata table as they were before the call: no vector appended, no
\* record stored.
C16_FailedAddLeavesStore ==
    [][AddFails =>
          /\ (IF index' = None THEN 0 ELSE ntotal(index')) = SizeBeforeCall
          /\ (MidAdd => cur.idx \notin DOMAIN metadata')
          /\ (~MidAdd => metadata' = metadata)]_vars

====
